---- MODULE Spec2Model ----
(***************************************************************************)
(* A model of aip-proxy: the response cache (cache.py), the message        *)
(* compressor (compressor.py) and the request handler (server.py).         *)
(*                                                                         *)
(* JSON values are tagged records, so that values of different Python      *)
(* types stay comparable: [t |-> "absent"] is a missing dict key,          *)
(* [t |-> "null"] is None, [t |-> "int", v |-> n] an int,                  *)
(* [t |-> "float", v |-> n] a float counted in tenths, [t |-> "str"] a     *)
(* string, [t |-> "obj", id |-> n] an opaque response object.  Texts are   *)
(* sequences of one-character strings.                                     *)
(***************************************************************************)
EXTENDS Integers, Sequences, FiniteSets, TLC

VARIABLES
    enabled,    \* ResponseCache.enabled
    cache,      \* ResponseCache._cache, in insertion order: <<[key, data, ts]>>
    stats,      \* ResponseCache._stats
    now,        \* the reading of time.time()
    level,      \* TokenCompressor.level
    cstats,     \* TokenCompressor.stats
    hs,         \* the state of each running proxy() call
    started,    \* the number of proxy() calls started so far
    answered,   \* per key, the latest upstream answer the handler was to cache
    last,       \* the latest call made directly on the cache
    written,    \* per key, the payload of the latest store still in the cache
    zlast       \* the latest call made directly on the compressor

vars ==
    <<enabled, cache, stats, now, level, cstats, hs, started, answered, last, written,
      zlast>>

(* ------------------------------ bounds -------------------------------- *)

\* Capacity the cache is constructed with (ResponseCache(max_size=...)).
max_size == 2

\* Time-to-live the cache is constructed with, in clock ticks.
ttl == 1

\* The clock stops advancing at this tick.
MaxTime == 2

\* No more lookups are started once hits + misses reaches this number.
MaxLookups == 2

\* No more stores are started once the eviction counter reaches this number.
MaxEvictions == 1

(* ---------------------------- JSON values ----------------------------- *)

Absent == [t |-> "absent"]

JsonNull == [t |-> "null"]

JInt(n) == [t |-> "int", v |-> n]

\* A float, in tenths: JFloat(7) is 0.7.
JFloat(n) == [t |-> "float", v |-> n]

JStr(s) == [t |-> "str", s |-> s]

JObj(n) == [t |-> "obj", id |-> n]

\* dict.get(key, default)
DictGet(value, default) == IF value = Absent THEN default ELSE value

(* ------------------------------- texts -------------------------------- *)

TextVerbose == <<"a", " ", " ", "b">>

TextCompact == <<"a", " ", "b">>

StrContent(text) == [kind |-> "str", text |-> text]

UserMessage(content) == [role |-> "user", content |-> content]

MsgsVerbose == [t |-> "list", items |-> <<UserMessage(StrContent(TextVerbose))>>]

MsgsCompact == [t |-> "list", items |-> <<UserMessage(StrContent(TextCompact))>>]

EmptyList == [t |-> "list", items |-> <<>>]

(* ------------------------------ requests ------------------------------ *)

ChatData(messages, temperature, stream) ==
    [model |-> JStr(<<"g">>), messages |-> messages, temperature |-> temperature,
     max_tokens |-> Absent, stream |-> stream]

\* The request dicts handed to ResponseCache.get and ResponseCache.put: the
\* temperature is 0, null, missing or 0.7.
CacheRequests ==
    {ChatData(MsgsVerbose, temp, Absent) : temp \in {JInt(0), JsonNull, Absent, JFloat(7)}}
        \cup {ChatData(MsgsCompact, JInt(0), Absent)}

\* The response dicts handed to ResponseCache.put.
Payloads == {JObj(1), JObj(2)}

NoRequest == ChatData(Absent, Absent, Absent)

(* ---------------------------- ResponseCache --------------------------- *)

\* The stream flag made a fifth part of the key.
MakeKey_WithStream(request_data) ==
    [model |-> DictGet(request_data.model, JStr(<<>>)),
     messages |-> DictGet(request_data.messages, EmptyList),
     temperature |-> DictGet(request_data.temperature, JFloat(10)),
     max_tokens |-> DictGet(request_data.max_tokens, JsonNull),
     stream |-> request_data.stream]

\* The truncated SHA-256 of the key-sorted serialization is taken to be
\* injective on the four key parts: the key is the tuple of the parts.
MakeKey(request_data) ==
    [model |-> DictGet(request_data.model, JStr(<<>>)),
     messages |-> DictGet(request_data.messages, EmptyList),
     temperature |-> DictGet(request_data.temperature, JFloat(10)),
     max_tokens |-> DictGet(request_data.max_tokens, JsonNull)]

\* Position of key in the dict (insertion order), 0 when it is not a key.
IndexOf(c, key) ==
    IF \E i \in 1..Len(c) : c[i].key = key
    THEN CHOOSE i \in 1..Len(c) : c[i].key = key
    ELSE 0

Keys(c) == {c[i].key : i \in 1..Len(c)}

\* del d[key] at position i
RemoveAt(c, i) == [j \in 1..(Len(c) - 1) |-> IF j < i THEN c[j] ELSE c[j + 1]]

\* d[key] = entry: an existing key keeps its position, a new key goes last.
DictSet(c, entry) ==
    LET i == IndexOf(c, entry.key)
    IN  IF i = 0 THEN Append(c, entry) ELSE [c EXCEPT ![i] = entry]

\* The TTL test off by one: an entry exactly ttl old counts as expired.
Expired_AtTtl(ts, t) == t - ts >= ttl

\* time.time() - entry["ts"] > self.ttl
Expired(ts, t) == t - ts > ttl

\* get that reports an expired entry absent without deleting it.
CacheGet_NoPurge(on, c, st, request_data, t1, t2) ==
    LET key == MakeKey(request_data)
        i == IndexOf(c, key)
    IN  IF ~on THEN [cache |-> c, stats |-> st, result |-> JsonNull, hit |-> FALSE]
        ELSE IF i = 0 \/ Expired(c[i].ts, t1)
        THEN [cache |-> c, stats |-> [st EXCEPT !.misses = @ + 1], result |-> JsonNull,
              hit |-> FALSE]
        ELSE [cache |-> [c EXCEPT ![i].ts = t2], stats |-> [st EXCEPT !.hits = @ + 1],
              result |-> c[i].data, hit |-> TRUE]

\* ResponseCache.get, reading the clock at t1 (the TTL check) and at t2 (the
\* refresh).  The result None is JsonNull.
CacheGet(on, c, st, request_data, t1, t2) ==
    LET key == MakeKey(request_data)
        i == IndexOf(c, key)
    IN  IF ~on THEN [cache |-> c, stats |-> st, result |-> JsonNull, hit |-> FALSE]
        ELSE IF i = 0
        THEN [cache |-> c, stats |-> [st EXCEPT !.misses = @ + 1], result |-> JsonNull,
              hit |-> FALSE]
        ELSE IF Expired(c[i].ts, t1)
        THEN [cache |-> RemoveAt(c, i), stats |-> [st EXCEPT !.misses = @ + 1],
              result |-> JsonNull, hit |-> FALSE]
        ELSE [cache |-> [c EXCEPT ![i].ts = t2], stats |-> [st EXCEPT !.hits = @ + 1],
              result |-> c[i].data, hit |-> TRUE]

\* The temperature test left out: every request is stored.
TemperatureCheck_Always(temp) == "store"

\* temp is not None and temp > 0: "skip", "store", or "TypeError" when the
\* comparison of temp with 0 raises.
TemperatureCheck(temp) ==
    IF temp.t = "null" THEN "store"
    ELSE IF temp.t \in {"int", "float"} THEN (IF temp.v > 0 THEN "skip" ELSE "store")
    ELSE IF temp.t = "bool" THEN (IF temp.b THEN "skip" ELSE "store")
    ELSE "TypeError"

\* max() in place of min(): the most recently touched entry is chosen.
OldestIndex_Newest(c) ==
    CHOOSE i \in 1..Len(c) :
        /\ \A j \in 1..Len(c) : c[i].ts >= c[j].ts
        /\ \A j \in 1..(i - 1) : c[j].ts < c[i].ts

\* The entry inserted first is chosen, whatever the times.
OldestIndex_FirstInserted(c) == 1

\* min(self._cache, key=lambda k: self._cache[k]["ts"]): the first position,
\* in insertion order, whose ts is the smallest.
OldestIndex(c) ==
    CHOOSE i \in 1..Len(c) :
        /\ \A j \in 1..Len(c) : c[i].ts <= c[j].ts
        /\ \A j \in 1..(i - 1) : c[j].ts > c[i].ts

\* The default None in place of 1.0: a missing temperature is stored.
PutTemperature_None(request_data) == DictGet(request_data.temperature, JsonNull)

\* temp = request_data.get("temperature", 1.0)
PutTemperature(request_data) == DictGet(request_data.temperature, JFloat(10))

\* put without the eviction: a new key is inserted whatever the size.
CachePut_NoEvict(on, c, st, request_data, response_data, t) ==
    LET temp == PutTemperature(request_data)
        check == TemperatureCheck(temp)
        entry == [key |-> MakeKey(request_data), data |-> response_data, ts |-> t]
    IN  IF ~on THEN [cache |-> c, stats |-> st, raised |-> "none"]
        ELSE IF check = "TypeError" THEN [cache |-> c, stats |-> st, raised |-> "TypeError"]
        ELSE IF check = "skip" THEN [cache |-> c, stats |-> st, raised |-> "none"]
        ELSE [cache |-> DictSet(c, entry), stats |-> st, raised |-> "none"]

\* put without the test of self.enabled
CachePut_WhenDisabled(on, c, st, request_data, response_data, t) ==
    LET temp == PutTemperature(request_data)
        check == TemperatureCheck(temp)
        key == MakeKey(request_data)
        entry == [key |-> key, data |-> response_data, ts |-> t]
    IN  IF check = "TypeError" THEN [cache |-> c, stats |-> st, raised |-> "TypeError"]
        ELSE IF check = "skip" THEN [cache |-> c, stats |-> st, raised |-> "none"]
        ELSE IF Len(c) >= max_size /\ IndexOf(c, key) = 0
        THEN IF Len(c) = 0
             THEN [cache |-> c, stats |-> st, raised |-> "ValueError"]
             ELSE [cache |-> DictSet(RemoveAt(c, OldestIndex(c)), entry),
                   stats |-> [st EXCEPT !.evictions = @ + 1], raised |-> "none"]
        ELSE [cache |-> DictSet(c, entry), stats |-> st, raised |-> "none"]

\* put that counts an eviction twice.
CachePut_EvictionCountedTwice(on, c, st, request_data, response_data, t) ==
    LET temp == PutTemperature(request_data)
        check == TemperatureCheck(temp)
        key == MakeKey(request_data)
        entry == [key |-> key, data |-> response_data, ts |-> t]
    IN  IF ~on THEN [cache |-> c, stats |-> st, raised |-> "none"]
        ELSE IF check = "TypeError" THEN [cache |-> c, stats |-> st, raised |-> "TypeError"]
        ELSE IF check = "skip" THEN [cache |-> c, stats |-> st, raised |-> "none"]
        ELSE IF Len(c) >= max_size /\ IndexOf(c, key) = 0
        THEN IF Len(c) = 0
             THEN [cache |-> c, stats |-> st, raised |-> "ValueError"]
             ELSE [cache |-> DictSet(RemoveAt(c, OldestIndex(c)), entry),
                   stats |-> [st EXCEPT !.evictions = @ + 2], raised |-> "none"]
        ELSE [cache |-> DictSet(c, entry), stats |-> st, raised |-> "none"]

\* ResponseCache.put at clock reading t.  raised is "none", "TypeError"
\* (the temperature comparison) or "ValueError" (min() of an empty dict).
CachePut(on, c, st, request_data, response_data, t) ==
    LET temp == PutTemperature(request_data)
        check == TemperatureCheck(temp)
        key == MakeKey(request_data)
        entry == [key |-> key, data |-> response_data, ts |-> t]
    IN  IF ~on THEN [cache |-> c, stats |-> st, raised |-> "none"]
        ELSE IF check = "TypeError" THEN [cache |-> c, stats |-> st, raised |-> "TypeError"]
        ELSE IF check = "skip" THEN [cache |-> c, stats |-> st, raised |-> "none"]
        ELSE IF Len(c) >= max_size /\ IndexOf(c, key) = 0
        THEN IF Len(c) = 0
             THEN [cache |-> c, stats |-> st, raised |-> "ValueError"]
             ELSE [cache |-> DictSet(RemoveAt(c, OldestIndex(c)), entry),
                   stats |-> [st EXCEPT !.evictions = @ + 1], raised |-> "none"]
        ELSE [cache |-> DictSet(c, entry), stats |-> st, raised |-> "none"]

\* ResponseCache.clear
CacheClear(c) == <<>>

\* ResponseCache.get_stats()["entries"]
Entries(c) == Len(c)

(* ------------------------- what is observed -------------------------- *)

\* last is the latest call made on the cache: its name, its request argument,
\* what it returned or raised, and the number of entries it found.
Call(op, request_data, result, raised, before) ==
    [op |-> op, req |-> request_data, result |-> result, raised |-> raised,
     before |-> before]

\* written maps each key to the payload of the latest store made under it,
\* for as long as the entry has not left the cache since; Absent otherwise.
AllKeys == {MakeKey(r) : r \in CacheRequests}

\* Whether the request is one a store is to keep: its temperature is present
\* and is 0 or null.
Eligible(request_data) ==
    request_data.temperature \in {JInt(0), JsonNull}

Record(w, c2, on, request_data, response_data) ==
    [k \in AllKeys |->
        IF k \notin Keys(c2) THEN Absent
        ELSE IF on /\ Eligible(request_data) /\ k = MakeKey(request_data)
        THEN response_data
        ELSE w[k]]

Forget(w, c2) == [k \in AllKeys |-> IF k \notin Keys(c2) THEN Absent ELSE w[k]]

\* The variables of the running service, which calls made directly on the
\* cache leave alone.
dvars == <<level, cstats, hs, started, answered, zlast>>

\* No upstream answer is on record for the key.
NotAnswered == [payload |-> JsonNull, at |-> -1]

(* --------------------------- TokenCompressor -------------------------- *)

Newline == "\n"

\* The backtick character, written "@" in the texts of this module.
Backtick == "@"

\* The smallest k in i..n with P(k), 0 when there is none.
First(i, n, P(_)) ==
    LET hits == {k \in i..n : P(k)}
    IN  IF hits = {} THEN 0 ELSE CHOOSE k \in hits : \A m \in hits : k <= m

\* The length of the longest run of characters of set S that starts at i.
RunLength(s, i, S) ==
    LET stop == First(i, Len(s), LAMBDA k : s[k] \notin S)
    IN  IF i > Len(s) THEN 0 ELSE IF stop = 0 THEN Len(s) - i + 1 ELSE stop - i

RECURSIVE CollapseBlankLines(_, _)
\* re.sub(r'\n{3,}', '\n\n', text), from position i on
CollapseBlankLines(s, i) ==
    LET k == First(i, Len(s) - 2,
                   LAMBDA m : s[m] = Newline /\ s[m + 1] = Newline /\ s[m + 2] = Newline)
    IN  IF k = 0 THEN SubSeq(s, i, Len(s))
        ELSE SubSeq(s, i, k - 1) \o <<Newline, Newline>>
                \o CollapseBlankLines(s, k + RunLength(s, k, {Newline}))

\* Whether a run of spaces and tabs that ends at a newline starts at i.
TrailingAt(s, i) ==
    LET n == RunLength(s, i, {" ", "\t"})
    IN  n > 0 /\ i + n <= Len(s) /\ s[i + n] = Newline

RECURSIVE StripTrailing(_, _)
\* re.sub(r'[ \t]+\n', '\n', text), from position i on
StripTrailing(s, i) ==
    LET k == First(i, Len(s), LAMBDA m : TrailingAt(s, m))
    IN  IF k = 0 THEN SubSeq(s, i, Len(s))
        ELSE SubSeq(s, i, k - 1) \o StripTrailing(s, k + RunLength(s, k, {" ", "\t"}))

RECURSIVE CollapseSpaces(_, _)
\* re.sub(r'  +', ' ', part), from position i on
CollapseSpaces(s, i) ==
    LET k == First(i, Len(s) - 1, LAMBDA m : s[m] = " " /\ s[m + 1] = " ")
    IN  IF k = 0 THEN SubSeq(s, i, Len(s))
        ELSE SubSeq(s, i, k - 1) \o <<" ">> \o CollapseSpaces(s, k + RunLength(s, k, {" "}))

\* Whether a fence marker (three backticks) starts at position i.
FenceAt(s, i) ==
    /\ i + 2 <= Len(s)
    /\ s[i] = Backtick /\ s[i + 1] = Backtick /\ s[i + 2] = Backtick

\* The first position from i on where a fence marker starts, 0 when none does.
NextFence(s, i) == First(i, Len(s), LAMBDA m : FenceAt(s, m))

RECURSIVE CollapseOutsideFences(_, _)
\* re.split on the fenced blocks (fence, anything, next fence) followed by
\* the collapse of the runs of spaces in the parts at even positions, joined
\* again; from position i on.
CollapseOutsideFences(s, i) ==
    LET open == NextFence(s, i)
        close == IF open = 0 THEN 0 ELSE NextFence(s, open + 3)
    IN  IF close = 0 THEN CollapseSpaces(SubSeq(s, i, Len(s)), 1)
        ELSE CollapseSpaces(SubSeq(s, i, open - 1), 1)
                \o SubSeq(s, open, close + 2)
                \o CollapseOutsideFences(s, close + 3)

\* TokenCompressor._normalize_whitespace
NormalizeWhitespace(text) ==
    CollapseOutsideFences(StripTrailing(CollapseBlankLines(text, 1), 1), 1)

\* The characters \w matches.
WordChars ==
    {"a", "b", "c", "d", "e", "f", "g", "h", "i", "j", "k", "l", "m", "n", "o", "p",
     "q", "r", "s", "t", "u", "v", "w", "x", "y", "z",
     "A", "B", "C", "D", "E", "F", "G", "H", "I", "J", "K", "L", "M", "N", "O", "P",
     "Q", "R", "S", "T", "U", "V", "W", "X", "Y", "Z",
     "0", "1", "2", "3", "4", "5", "6", "7", "8", "9", "_"}

\* The characters \s matches.
SpaceChars == {" ", "\t", Newline, "\r", "\f"}

\* ^ under re.MULTILINE: the start of the text or the position after a newline.
LineStart(s, i) == i = 1 \/ s[i - 1] = Newline

\* The position after the match of .*$\n? that starts at i: past the rest of
\* the line and the newline ending it, if any.
AfterLine(s, i) ==
    LET n == RunLength(s, i, {s[k] : k \in 1..Len(s)} \ {Newline})
    IN  IF i + n <= Len(s) THEN i + n + 1 ELSE i + n

\* Whether a // comment follows at position i.
SlashComment(s, i) == i + 1 <= Len(s) /\ s[i] = "/" /\ s[i + 1] = "/"

\* Whether a # comment follows at position i: a # not followed by !.
HashComment(s, i) ==
    /\ i <= Len(s)
    /\ s[i] = "#"
    /\ ~(i + 1 <= Len(s) /\ s[i + 1] = "!")

\* Whether the pattern ^\s*// matches at position i.
SlashCommentLine(s, i) ==
    LineStart(s, i) /\ SlashComment(s, i + RunLength(s, i, SpaceChars))

\* Whether the pattern ^\s*#(?!!) matches at position i.
HashCommentLine(s, i) ==
    LineStart(s, i) /\ HashComment(s, i + RunLength(s, i, SpaceChars))

RECURSIVE RemoveSlashComments(_, _)
\* re.sub(r'(?m)^\s*//.*$\n?', '', code), from position i on
RemoveSlashComments(s, i) ==
    LET k == First(i, Len(s), LAMBDA m : SlashCommentLine(s, m))
    IN  IF k = 0 THEN SubSeq(s, i, Len(s))
        ELSE SubSeq(s, i, k - 1)
                \o RemoveSlashComments(s, AfterLine(s, k + RunLength(s, k, SpaceChars)))

RECURSIVE RemoveHashComments(_, _)
\* re.sub(r'(?m)^\s*#(?!!).*$\n?', '', code), from position i on
RemoveHashComments(s, i) ==
    LET k == First(i, Len(s), LAMBDA m : HashCommentLine(s, m))
    IN  IF k = 0 THEN SubSeq(s, i, Len(s))
        ELSE SubSeq(s, i, k - 1)
                \o RemoveHashComments(s, AfterLine(s, k + RunLength(s, k, SpaceChars)))

RECURSIVE RemoveEmptyLines(_, _)
\* re.sub(r'\n{2,}', '\n', code), from position i on
RemoveEmptyLines(s, i) ==
    LET k == First(i, Len(s) - 1, LAMBDA m : s[m] = Newline /\ s[m + 1] = Newline)
    IN  IF k = 0 THEN SubSeq(s, i, Len(s))
        ELSE SubSeq(s, i, k - 1) \o <<Newline>>
                \o RemoveEmptyLines(s, k + RunLength(s, k, {Newline}))

\* str.strip()
Strip(s) ==
    LET kept == {k \in 1..Len(s) : s[k] \notin SpaceChars}
    IN  IF kept = {} THEN <<>>
        ELSE SubSeq(s, CHOOSE k \in kept : \A m \in kept : k <= m,
                       CHOOSE k \in kept : \A m \in kept : k >= m)

\* compress_code, the replacement of one fenced block with language tag lang
CompressCode(lang, code) ==
    LET c1 == RemoveSlashComments(code, 1)
        c2 == RemoveHashComments(c1, 1)
        c3 == RemoveEmptyLines(c2, 1)
        c4 == StripTrailing(c3, 1)
    IN  <<Backtick, Backtick, Backtick>> \o lang \o <<Newline>> \o Strip(c4)
            \o <<Newline, Backtick, Backtick, Backtick>>

\* The position of the newline that ends the language tag of a fence at i.
TagEnd(s, i) == i + 3 + RunLength(s, i + 3, WordChars)

\* Whether a block matches at position i: a fence, a word (the language), a
\* newline, and a later fence.
BlockAt(s, i) ==
    /\ FenceAt(s, i)
    /\ TagEnd(s, i) <= Len(s)
    /\ s[TagEnd(s, i)] = Newline
    /\ NextFence(s, TagEnd(s, i) + 1) # 0

RECURSIVE CompressCodeBlocksFrom(_, _)
\* re.sub of compress_code over the blocks that match, each running to the
\* nearest closing fence; from position i on.
CompressCodeBlocksFrom(s, i) ==
    LET k == First(i, Len(s), LAMBDA m : BlockAt(s, m))
        body == TagEnd(s, k) + 1
        close == NextFence(s, body)
    IN  IF k = 0 THEN SubSeq(s, i, Len(s))
        ELSE SubSeq(s, i, k - 1)
                \o CompressCode(SubSeq(s, k + 3, body - 2), SubSeq(s, body, close - 1))
                \o CompressCodeBlocksFrom(s, close + 3)

\* TokenCompressor._compress_code_blocks
CompressCodeBlocks(text) == CompressCodeBlocksFrom(text, 1)

RECURSIVE SplitFrom(_, _, _)
\* The pieces of s from position i on, cut at each occurrence of the
\* character sep.
SplitFrom(s, i, sep) ==
    LET n == RunLength(s, i, {s[k] : k \in 1..Len(s)} \ {sep})
    IN  IF i + n > Len(s) THEN <<SubSeq(s, i, Len(s))>>
        ELSE <<SubSeq(s, i, i + n - 1)>> \o SplitFrom(s, i + n + 1, sep)

\* text.split('\n')
SplitLines(text) == SplitFrom(text, 1, Newline)

RECURSIVE JoinLines(_)
\* '\n'.join(lines)
JoinLines(lines) ==
    IF Len(lines) = 0 THEN <<>>
    ELSE IF Len(lines) = 1 THEN lines[1]
    ELSE lines[1] \o <<Newline>> \o JoinLines(Tail(lines))

\* Texts of fewer lines than this are left alone by _deduplicate_blocks.
DedupMinLines == 20

\* The number of lines of a block.
block_size == 3

\* A block is recorded or elided only when longer than this.
DedupMinChars == 100

\* A line of n characters ch.
Repeat(ch, n) == [k \in 1..n |-> ch]

\* Two blocks of three lines whose truncated MD5 digests are both c25b96c6:
\* "line 36387 x...x", "y...y", "z...z" and "line 37808 x...x", "y...y",
\* "z...z" (runs of 40 characters).
CollidingLine1 ==
    <<"l", "i", "n", "e", " ", "3", "6", "3", "8", "7", " ">> \o Repeat("x", 40)

CollidingLine2 ==
    <<"l", "i", "n", "e", " ", "3", "7", "8", "0", "8", " ">> \o Repeat("x", 40)

LineY == Repeat("y", 40)

LineZ == Repeat("z", 40)

CollidingBlock1 == JoinLines(<<CollidingLine1, LineY, LineZ>>)

CollidingBlock2 == JoinLines(<<CollidingLine2, LineY, LineZ>>)

\* hashlib.md5(block.encode()).hexdigest()[:8]: a digest of 32 bits, which
\* cannot tell all blocks apart.  It is written as the block itself, but for
\* the two colliding blocks, which have the same.
BlockHash(block) == IF block = CollidingBlock2 THEN CollidingBlock1 ELSE block

\* f'[... same as above ({block_hash}) ...]'; the digest is written "#".
SameAsAbove(block_hash) ==
    <<"[", ".", ".", ".", " ", "s", "a", "m", "e", " ", "a", "s", " ",
      "a", "b", "o", "v", "e", " ", "(", "#", ")", " ", ".", ".", ".", "]">>

RECURSIVE DedupLoop(_, _, _)
\* The while loop of _deduplicate_blocks from line i on (lines are numbered
\* from 1 here), seen being the digests recorded so far.
DedupLoop(lines, i, seen) ==
    IF i > Len(lines) THEN <<>>
    ELSE IF i + block_size - 1 <= Len(lines)
    THEN LET block == JoinLines(SubSeq(lines, i, i + block_size - 1))
             block_hash == BlockHash(block)
         IN  IF block_hash \in seen /\ Len(block) > DedupMinChars
             THEN <<SameAsAbove(block_hash)>> \o DedupLoop(lines, i + block_size, seen)
             ELSE IF Len(block) > DedupMinChars
             THEN <<lines[i]>> \o DedupLoop(lines, i + 1, seen \cup {block_hash})
             ELSE <<lines[i]>> \o DedupLoop(lines, i + 1, seen)
    ELSE <<lines[i]>> \o DedupLoop(lines, i + 1, seen)

\* TokenCompressor._deduplicate_blocks
DeduplicateBlocks(text) ==
    LET lines == SplitLines(text)
    IN  IF Len(lines) < DedupMinLines THEN text
        ELSE JoinLines(DedupLoop(lines, 1, {}))

\* The lower-case letter of each upper-case letter.
LowerOf ==
    "A" :> "a" @@ "B" :> "b" @@ "C" :> "c" @@ "D" :> "d" @@ "E" :> "e" @@ "F" :> "f" @@ "G" :> "g" @@ "H" :> "h" @@ "I" :> "i" @@ "J" :> "j" @@ "K" :> "k" @@ "L" :> "l" @@ "M" :> "m" @@
    "N" :> "n" @@ "O" :> "o" @@ "P" :> "p" @@ "Q" :> "q" @@ "R" :> "r" @@ "S" :> "s" @@ "T" :> "t" @@ "U" :> "u" @@ "V" :> "v" @@ "W" :> "w" @@ "X" :> "x" @@ "Y" :> "y" @@ "Z" :> "z"

\* The character compared under re.IGNORECASE.
Fold(ch) == IF ch \in DOMAIN LowerOf THEN LowerOf[ch] ELSE ch

\* Whether the literal pattern matches at position i, whatever the case.
MatchesAt(s, i, pattern) ==
    /\ i + Len(pattern) - 1 <= Len(s)
    /\ \A k \in 1..Len(pattern) : Fold(s[i + k - 1]) = Fold(pattern[k])

RECURSIVE ReplaceAll(_, _, _, _)
\* re.sub(pattern, replacement, text, flags=re.IGNORECASE), from position i on
ReplaceAll(s, i, pattern, replacement) ==
    LET k == First(i, Len(s), LAMBDA m : MatchesAt(s, m, pattern))
    IN  IF k = 0 THEN SubSeq(s, i, Len(s))
        ELSE SubSeq(s, i, k - 1) \o replacement
                \o ReplaceAll(s, k + Len(pattern), pattern, replacement)

\* The list abbrevs of _abbreviate_patterns.
abbrevs ==
    <<
       [pattern |-> <<"P", "l", "e", "a", "s", "e", " ", "n", "o", "t", "e", " ", "t", "h", "a", "t", " ">>,
        replacement |-> <<>>],
       [pattern |-> <<"I", "t", " ", "i", "s", " ", "i", "m", "p", "o", "r", "t", "a", "n", "t", " ", "t", "o", " ", "n", "o", "t", "e", " ", "t", "h", "a", "t", " ">>,
        replacement |-> <<>>],
       [pattern |-> <<"A", "s", " ", "m", "e", "n", "t", "i", "o", "n", "e", "d", " ", "e", "a", "r", "l", "i", "e", "r", ",", " ">>,
        replacement |-> <<>>],
       [pattern |-> <<"I", "n", " ", "o", "r", "d", "e", "r", " ", "t", "o", " ">>,
        replacement |-> <<"T", "o", " ">>],
       [pattern |-> <<"D", "u", "e", " ", "t", "o", " ", "t", "h", "e", " ", "f", "a", "c", "t", " ", "t", "h", "a", "t", " ">>,
        replacement |-> <<"B", "e", "c", "a", "u", "s", "e", " ">>],
       [pattern |-> <<"A", "t", " ", "t", "h", "i", "s", " ", "p", "o", "i", "n", "t", " ", "i", "n", " ", "t", "i", "m", "e">>,
        replacement |-> <<"N", "o", "w">>],
       [pattern |-> <<"I", "n", " ", "t", "h", "e", " ", "e", "v", "e", "n", "t", " ", "t", "h", "a", "t", " ">>,
        replacement |-> <<"I", "f", " ">>],
       [pattern |-> <<"F", "o", "r", " ", "t", "h", "e", " ", "p", "u", "r", "p", "o", "s", "e", " ", "o", "f", " ">>,
        replacement |-> <<"F", "o", "r", " ">>],
       [pattern |-> <<"W", "i", "t", "h", " ", "r", "e", "g", "a", "r", "d", " ", "t", "o", " ">>,
        replacement |-> <<"A", "b", "o", "u", "t", " ">>],
       [pattern |-> <<"I", "n", " ", "t", "h", "e", " ", "c", "o", "n", "t", "e", "x", "t", " ", "o", "f", " ">>,
        replacement |-> <<"I", "n", " ">>]
    >>

RECURSIVE AbbreviateFrom(_, _)
\* The loop of _abbreviate_patterns from entry k of abbrevs on.
AbbreviateFrom(text, k) ==
    IF k > Len(abbrevs) THEN text
    ELSE AbbreviateFrom(ReplaceAll(text, 1, abbrevs[k].pattern, abbrevs[k].replacement),
                        k + 1)

\* TokenCompressor._abbreviate_patterns
AbbreviatePatterns(text) == AbbreviateFrom(text, 1)

\* Pass 2 of _compress_text, on the result of pass 1 (level 2 and above)
CompressPass2(lvl, result) ==
    IF lvl >= 2 THEN DeduplicateBlocks(CompressCodeBlocks(result)) ELSE result

\* Pass 3 of _compress_text, on the result of pass 2 (level 3)
CompressPass3(lvl, result) ==
    IF lvl >= 3 THEN AbbreviatePatterns(result) ELSE result

\* TokenCompressor._compress_text at compression level lvl
CompressText(lvl, text) ==
    CompressPass3(lvl, CompressPass2(lvl, NormalizeWhitespace(text)))

\* A part of a multi-modal content: its type and, for a text part, its text.
Part(type, text) == [type |-> type, text |-> text]

PartsContent(parts) == [kind |-> "parts", parts |-> parts]

\* What one turn of a loop of compress_messages gives: the item to append,
\* the exception raised if any, the characters counted before and after.
Turn(item, raised, orig, comp) ==
    [item |-> item, raised |-> raised, orig |-> orig, comp |-> comp]

\* What the turns of a loop give so far: the items appended, the exception
\* raised if any, the characters counted before and after.
NoTurns == [items |-> <<>>, raised |-> "none", orig |-> 0, comp |-> 0]

\* A turn followed by the turns after it; these are not taken when the turn
\* raises.
Then(turn, rest) ==
    IF turn.raised # "none"
    THEN [items |-> <<>>, raised |-> turn.raised, orig |-> turn.orig, comp |-> turn.comp]
    ELSE [items |-> <<turn.item>> \o rest.items, raised |-> rest.raised,
          orig |-> turn.orig + rest.orig, comp |-> turn.comp + rest.comp]

\* Lines 43-48: a text part whose text is the string original, new being
\* its compression.
TextPartTurn(part, original, new) ==
    Turn([part EXCEPT !.text = JStr(new)], "none", Len(original), Len(new))

\* One turn of the loop over the parts: part["text"] raises KeyError when the
\* key is missing and len(original) raises TypeError when it is no string.
CompressPart(lvl, part) ==
    IF part.type # "text" THEN Turn(part, "none", 0, 0)
    ELSE IF part.text = Absent THEN Turn(part, "KeyError", 0, 0)
    ELSE IF part.text.t # "str" THEN Turn(part, "TypeError", 0, 0)
    ELSE TextPartTurn(part, part.text.s, CompressText(lvl, part.text.s))

RECURSIVE CompressParts(_, _, _)
\* The loop over msg["content"] from part i on.
CompressParts(lvl, parts, i) ==
    IF i > Len(parts) THEN NoTurns
    ELSE Then(CompressPart(lvl, parts[i]), CompressParts(lvl, parts, i + 1))

\* A new message built from the compressed content alone.
TextMessageTurn_ContentOnly(msg, original, new) ==
    Turn([role |-> "user", content |-> StrContent(new)], "none", Len(original), Len(new))

\* Lines 34-37: a message whose content is the string original, new being
\* its compression.
TextMessageTurn(msg, original, new) ==
    Turn([msg EXCEPT !.content = StrContent(new)], "none", Len(original), Len(new))

\* Line 51: a message whose content is a list, turns being what the loop
\* over its parts gave.
PartsMessageTurn(msg, turns) ==
    Turn([msg EXCEPT !.content = PartsContent(turns.items)], turns.raised,
         turns.orig, turns.comp)

\* One turn of the loop over the messages.
CompressMessage(lvl, msg) ==
    IF msg.content.kind = "str"
    THEN TextMessageTurn(msg, msg.content.text, CompressText(lvl, msg.content.text))
    ELSE IF msg.content.kind = "parts"
    THEN PartsMessageTurn(msg, CompressParts(lvl, msg.content.parts, 1))
    ELSE Turn(msg, "none", 0, 0)

RECURSIVE CompressItems(_, _, _)
\* The loop over messages from message i on.
CompressItems(lvl, items, i) ==
    IF i > Len(items) THEN NoTurns
    ELSE Then(CompressMessage(lvl, items[i]), CompressItems(lvl, items, i + 1))

\* What compress_messages gives: the list returned, the exception raised if
\* any, and the statistics after the call.
Compressed(messages, raised, cst) ==
    [messages |-> messages, raised |-> raised, cstats |-> cst]

\* Lines 35, 37, 44, 47 and 54: the statistics after the turns.
Counted(cst, turns) ==
    [original_chars |-> cst.original_chars + turns.orig,
     compressed_chars |-> cst.compressed_chars + turns.comp,
     calls |-> cst.calls + (IF turns.raised = "none" THEN 1 ELSE 0)]

\* Lines 30-55, turns being what the loop over the messages gave.
CompressedBy(turns, cst) ==
    Compressed([t |-> "list", items |-> turns.items], turns.raised, Counted(cst, turns))

\* compress_messages without the test of level 0
CompressMessages_AtLevelZeroToo(lvl, messages, cst) ==
    IF messages.t # "list" THEN Compressed(messages, "TypeError", cst)
    ELSE CompressedBy(CompressItems(lvl, messages.items, 1), cst)

\* TokenCompressor.compress_messages
CompressMessages(lvl, messages, cst) ==
    IF lvl = 0 THEN Compressed(messages, "none", cst)
    ELSE IF messages.t # "list" THEN Compressed(messages, "TypeError", cst)
    ELSE CompressedBy(CompressItems(lvl, messages.items, 1), cst)

\* zlast is the latest call made on the compressor: its name, its argument,
\* what it returned, the exception it raised if any, and the statistics it
\* found.
ZCall(op, arg, result, raised, before) ==
    [op |-> op, arg |-> arg, result |-> result, raised |-> raised, before |-> before]

NoZCall ==
    ZCall("init", JsonNull, JsonNull, "none",
          [original_chars |-> 0, compressed_chars |-> 0, calls |-> 0])

(* ------------------------------- proxy() ------------------------------ *)

JBool(b) == [t |-> "bool", b |-> b]

\* The truth value Python gives a JSON value.
Truthy(v) ==
    CASE v.t = "bool" -> v.b
      [] v.t \in {"int", "float"} -> v.v # 0
      [] v.t = "str" -> Len(v.s) > 0
      [] v.t = "list" -> Len(v.items) > 0
      [] v.t = "obj" -> TRUE
      [] OTHER -> FALSE

\* A request body: kind is "empty", "malformed" (text that is no JSON),
\* "badutf8" (bytes that are no text), "nonobject" (JSON that is no object) or
\* "object", whose fields are data.
Body(kind, data) == [kind |-> kind, data |-> data]

\* An inbound request: chat says that the path ends in /chat/completions and
\* the method is POST.
Inbound(chat, body) == [chat |-> chat, body |-> body]

NoInbound == Inbound(FALSE, Body("empty", NoRequest))

\* A message list with a part of type "text" whose text is null.
MsgsNullText ==
    [t |-> "list", items |-> <<UserMessage(PartsContent(<<Part("text", JsonNull)>>))>>]

\* The requests callers send.
Requests ==
    {Inbound(TRUE, Body("object", ChatData(MsgsVerbose, JInt(0), Absent))),
     Inbound(TRUE, Body("object", ChatData(MsgsCompact, JInt(0), JBool(FALSE)))),
     Inbound(TRUE, Body("object", ChatData(MsgsVerbose, JInt(0), JBool(TRUE)))),
     Inbound(TRUE, Body("object", ChatData(MsgsVerbose, JFloat(7), JInt(1)))),
     Inbound(TRUE, Body("object", ChatData(MsgsVerbose, JFloat(7), Absent))),
     Inbound(TRUE, Body("object", ChatData(MsgsCompact, JStr(<<"0">>), Absent))),
     Inbound(TRUE, Body("object", ChatData(MsgsNullText, JFloat(7), Absent))),
     Inbound(TRUE, Body("malformed", NoRequest)),
     Inbound(TRUE, Body("badutf8", NoRequest)),
     Inbound(TRUE, Body("nonobject", NoRequest)),
     Inbound(TRUE, Body("empty", NoRequest)),
     Inbound(FALSE, Body("object", ChatData(MsgsVerbose, JInt(0), Absent)))}

\* A response body that is no JSON.
NotJson == [t |-> "notjson"]

\* What the upstream answers: a status code and a body.
Replies == {[status |-> st, content |-> c] : st \in {200, 500}, c \in {JObj(1), JsonNull, NotJson}}

\* No answer of the upstream yet.
NoReply == [status |-> 0, content |-> NotJson]

\* What the caller receives.  kind is "cached" (JSONResponse(content=cached)),
\* "relay" (the upstream's status and body), "stream" (a StreamingResponse) or
\* "internal_error" (the 500 the framework answers when proxy() raises);
\* proxy() builds no response of another kind.
Response(kind, status, content) == [kind |-> kind, status |-> status, content |-> content]

NoResponse == Response("none", 0, JsonNull)

\* The body handed to the upstream call: the original bytes, or
\* json.dumps(data) of the rewritten data.
Forwarded(original, data) == [original |-> original, data |-> data]

\* A proxy() call that has not started.  upstream tells what became of the
\* upstream call: "none" (not made or not over), "answered" or "unreachable"
\* (client.send or client.request raised).  client is the httpx.AsyncClient
\* of the call: "none" before the async with of line 104 is entered, "open"
\* inside it, "closed" once it is left, the connections of the client being
\* closed with it.  aclosed tells whether upstream.aclose() has been called,
\* chunks counts the chunks relayed to the caller, and outcome tells how the
\* relay of a streamed response ended: "none" (not ended), "complete",
\* "upstream_error" or "disconnected".
Idle ==
    [pc |-> "idle", req |-> NoInbound, is_streaming |-> FALSE,
     body |-> Forwarded(TRUE, NoRequest), contacted |-> FALSE, hit |-> FALSE,
     looked |-> FALSE, upstream |-> "none", reply |-> NoReply,
     response |-> NoResponse, client |-> "none", aclosed |-> FALSE,
     chunks |-> 0, outcome |-> "none"]

Handlers == {"h1", "h2"}

\* No more proxy() calls are started once this many have been.
MaxRequests == 2

ShouldLook_WhateverTheStream(is_streaming, on) == on

\* The test before the lookup: the request does not stream and the cache is on.
ShouldLook(is_streaming, on) == ~is_streaming /\ on

\* A lookup that is not made.
NotLooked == [cache |-> cache, stats |-> stats, result |-> JsonNull, hit |-> FALSE]

\* A compression that is not made.
NotCompressed == Compressed(Absent, "none", cstats)

\* The locals of proxy() once the body has parsed to the object data.
Parsed(req, data, look, got) ==
    [Idle EXCEPT !.req = req, !.is_streaming = Truthy(data.stream),
                 !.hit = got.hit, !.looked = look]

\* Lines 87-93: the lookup gave a payload, which is returned.
ReturnCached(h, call, got) ==
    /\ hs' = [hs EXCEPT ![h] = [call EXCEPT !.pc = "done",
                                   !.response = Response("cached", 200, got.result)]]
    /\ cstats' = cstats

\* Lines 96-101: the messages have been compressed (zipped) and the request
\* goes to the upstream; a KeyError leaves the body as it came, any other
\* exception ends the call.
Forward(h, call, data, zipped) ==
    /\ cstats' = zipped.cstats
    /\ hs' = [hs EXCEPT ![h] =
                IF zipped.raised = "TypeError"
                THEN [call EXCEPT !.pc = "done",
                         !.response = Response("internal_error", 500, NotJson)]
                ELSE IF zipped.raised = "KeyError" \/ data.messages = Absent
                THEN [call EXCEPT !.pc = "upstream", !.contacted = TRUE, !.client = "open"]
                ELSE [call EXCEPT !.pc = "upstream", !.contacted = TRUE, !.client = "open",
                         !.body = Forwarded(FALSE,
                                     [data EXCEPT !.messages = zipped.messages])]]

\* Lines 85-98, got being what the lookup gave and t2 the clock after it.
AfterLookup(h, call, data, got, t2) ==
    /\ got.hit \/ t2 = now
    /\ cache' = got.cache
    /\ stats' = got.stats
    /\ now' = t2
    /\ IF got.result # JsonNull
       THEN ReturnCached(h, call, got)
       ELSE Forward(h, call, data,
                    IF data.messages # Absent
                    THEN CompressMessages(level, data.messages, cstats)
                    ELSE NotCompressed)

\* The lookup of lines 85-86, made or not.
Lookup(data, look, t2) ==
    IF look THEN CacheGet(enabled, cache, stats, data, now, t2) ELSE NotLooked

\* Lines 82-98, look telling whether the lookup is made.
HandleParsed(h, req, data, look, got, t2) ==
    AfterLookup(h, Parsed(req, data, look, got), data, got, t2)

\* Lines 79-101 of proxy() for a request whose body parsed to an object:
\* the lookup, then the compression.  t2 is the clock at the refresh of a hit.
HandleObject(h, req, look, t2) ==
    HandleParsed(h, req, req.body.data, look, Lookup(req.body.data, look, t2), t2)

\* proxy() from its start to the upstream call (lines 64-104), for one of
\* the given requests, as long as fewer than limit calls have been started.
Serve(h, requests, limit) ==
    /\ hs[h].pc = "idle"
    /\ started < limit
    /\ started' = started + 1
    /\ \E req \in requests, t2 \in {now, now + 1} :
          /\ t2 <= MaxTime
          /\ IF req.chat /\ req.body.kind = "object"
             THEN HandleObject(h, req, ShouldLook(Truthy(req.body.data.stream), enabled), t2)
             ELSE /\ t2 = now
                  /\ hs' = [hs EXCEPT ![h] =
                        IF req.chat /\ req.body.kind \in {"badutf8", "nonobject"}
                        THEN [Idle EXCEPT !.req = req, !.pc = "done",
                                 !.response = Response("internal_error", 500, NotJson)]
                        ELSE [Idle EXCEPT !.req = req, !.pc = "upstream", !.client = "open",
                                 !.contacted = TRUE]]
                  /\ UNCHANGED <<cache, stats, now, cstats>>
    /\ UNCHANGED <<enabled, level, answered, last, written, zlast>>

\* proxy() from its start to the upstream call (lines 64-104)
Receive(h) == Serve(h, Requests, MaxRequests)

\* The request body parses to an object a store is to keep: temperature 0 or
\* null.
Cacheable(req) == req.body.kind = "object" /\ Eligible(req.body.data)

\* The upstream's answer to record for the request, if any.
Answer(a, req, reply) ==
    IF enabled /\ req.chat /\ Cacheable(req) /\ reply.status = 200 /\ reply.content # NotJson
    THEN [a EXCEPT ![MakeKey(req.body.data)] = [payload |-> reply.content, at |-> now]]
    ELSE a

\* The buffered branch (lines 136-169): the upstream answers, the answer is
\* stored under the key of the original body and relayed.
UpstreamReply(h) ==
    /\ hs[h].pc = "upstream"
    /\ ~hs[h].is_streaming
    /\ \E reply \in Replies :
          LET req == hs[h].req
              store == /\ req.chat /\ reply.status = 200 /\ enabled
                       /\ reply.content # NotJson
                       /\ req.body.kind = "object"
              put == IF store
                     THEN CachePut(enabled, cache, stats, req.body.data, reply.content, now)
                     ELSE [cache |-> cache, stats |-> stats, raised |-> "none"]
          IN  /\ cache' = put.cache
              /\ stats' = put.stats
              /\ answered' = Answer(answered, req, reply)
              /\ hs' = [hs EXCEPT ![h].pc = "done",
                                  ![h].client = "closed",
                                  ![h].upstream = "answered",
                                  ![h].reply = reply,
                                  ![h].response =
                                      IF put.raised = "TypeError"
                                      THEN Response("internal_error", 500, NotJson)
                                      ELSE Response("relay", reply.status, reply.content)]
    /\ UNCHANGED <<enabled, now, level, cstats, started, last, written, zlast>>

\* The upstream cannot be reached: client.send or client.request raises.
UpstreamUnreachable(h) ==
    /\ hs[h].pc = "upstream"
    /\ hs' = [hs EXCEPT ![h].pc = "done",
                        ![h].client = "closed",
                        ![h].upstream = "unreachable",
                        ![h].response = Response("internal_error", 500, NotJson)]
    /\ UNCHANGED <<enabled, cache, stats, now, level, cstats, started, answered, last, written, zlast>>

\* The chunks of a streamed response are counted up to this number.
MaxChunks == 2

\* The streaming branch up to its return (lines 107-133): client.send gives
\* the upstream response, the StreamingResponse is built around the
\* generator, which has not run yet, and the return of line 128 leaves the
\* async with of line 104, which closes the client.
StreamReturn(call, status) ==
    [call EXCEPT !.pc = "streaming", !.upstream = "answered",
                 !.client = "closed",
                 !.response = Response("stream", status, NotJson)]

\* The streaming branch (lines 107-133): the upstream call is opened and a
\* StreamingResponse is returned.
StreamOpen(h) ==
    /\ hs[h].pc = "upstream"
    /\ hs[h].is_streaming
    /\ \E status \in {200, 500} :
          hs' = [hs EXCEPT ![h] = StreamReturn(hs[h], status)]
    /\ UNCHANGED <<enabled, cache, stats, now, level, cstats, started, answered, last, written, zlast>>

\* stream_generator, lines 118-119: a chunk is read from the upstream
\* response and yielded to the caller.  Whether a read made once the client
\* is closed gives a chunk (one already received) or raises is left open:
\* StreamChunk and StreamUpstreamError are both enabled.
StreamChunk(h) ==
    /\ hs[h].pc = "streaming"
    /\ hs[h].chunks < MaxChunks
    /\ hs' = [hs EXCEPT ![h].chunks = hs[h].chunks + 1]
    /\ UNCHANGED <<enabled, cache, stats, now, level, cstats, started, answered, last, written, zlast>>

\* stream_generator, lines 120-126: the loop over the chunks is over, the
\* upstream response is closed and the call is recorded.
StreamComplete(call) ==
    [call EXCEPT !.pc = "done", !.outcome = "complete", !.aclosed = TRUE]

\* stream_generator runs to its end: the chunks are relayed and the upstream
\* response is closed.
StreamEnd(h) ==
    /\ hs[h].pc = "streaming"
    /\ hs' = [hs EXCEPT ![h] = StreamComplete(hs[h])]
    /\ UNCHANGED <<enabled, cache, stats, now, level, cstats, started, answered, last, written, zlast>>

\* stream_generator, line 118: the read of the upstream response raises (the
\* upstream fails in the middle of the stream, or the connection is closed).
\* The exception leaves the generator: lines 120-126 are not run.
StreamUpstreamError(h) ==
    /\ hs[h].pc = "streaming"
    /\ hs' = [hs EXCEPT ![h].pc = "done", ![h].outcome = "upstream_error"]
    /\ UNCHANGED <<enabled, cache, stats, now, level, cstats, started, answered, last, written, zlast>>

\* The caller disconnects before the end: the framework stops iterating the
\* generator, which is cancelled or dropped where it stands (lines 118-119):
\* lines 120-126 are not run.
StreamDisconnect(h) ==
    /\ hs[h].pc = "streaming"
    /\ hs' = [hs EXCEPT ![h].pc = "done", ![h].outcome = "disconnected"]
    /\ UNCHANGED <<enabled, cache, stats, now, level, cstats, started, answered, last, written, zlast>>

\* The response has been sent: the call is over.
Finish(h) ==
    /\ hs[h].pc = "done"
    /\ hs' = [hs EXCEPT ![h] = Idle]
    /\ UNCHANGED <<enabled, cache, stats, now, level, cstats, started, answered, last, written, zlast>>

\* time passes
Clock ==
    /\ now < MaxTime
    /\ now' = now + 1
    /\ UNCHANGED <<enabled, cache, stats, level, cstats, hs, started, answered, last, written, zlast>>

(* --------------------- the cache driven through its API --------------- *)

InitCache ==
    /\ enabled \in BOOLEAN
    /\ cache = <<>>
    /\ stats = [hits |-> 0, misses |-> 0, evictions |-> 0]
    /\ now = 0
    /\ level = 0
    /\ cstats = [original_chars |-> 0, compressed_chars |-> 0, calls |-> 0]
    /\ hs = [h \in Handlers |-> Idle]
    /\ started = 0
    /\ answered = [k \in AllKeys |-> NotAnswered]
    /\ last = Call("init", NoRequest, JsonNull, "none", 0)
    /\ written = [k \in AllKeys |-> Absent]
    /\ zlast = NoZCall

\* time passes between two calls
Tick ==
    /\ now < MaxTime
    /\ now' = now + 1
    /\ last' = Call("tick", NoRequest, JsonNull, "none", Len(cache))
    /\ UNCHANGED <<enabled, cache, stats, written, dvars>>

\* cache.get(request_data); on a hit the clock is read a second time and may
\* have advanced
Get ==
    /\ stats.hits + stats.misses < MaxLookups
    /\ \E request_data \in CacheRequests, t2 \in {now, now + 1} :
          LET r == CacheGet(enabled, cache, stats, request_data, now, t2)
          IN  /\ t2 <= MaxTime
              /\ r.hit \/ t2 = now
              /\ cache' = r.cache
              /\ stats' = r.stats
              /\ now' = t2
              /\ last' = Call("get", request_data, r.result, "none", Len(cache))
              /\ written' = Forget(written, r.cache)
    /\ UNCHANGED <<enabled, dvars>>

\* cache.put(request_data, response_data)
Put ==
    /\ stats.evictions < MaxEvictions
    /\ \E request_data \in CacheRequests, response_data \in Payloads :
          LET r == CachePut(enabled, cache, stats, request_data, response_data, now)
          IN  /\ cache' = r.cache
              /\ stats' = r.stats
              /\ last' = Call("put", request_data, JsonNull, r.raised, Len(cache))
              /\ written' = Record(written, r.cache, enabled, request_data,
                                   response_data)
    /\ UNCHANGED <<enabled, now, dvars>>

\* cache.clear()
Clear ==
    /\ cache' = CacheClear(cache)
    /\ last' = Call("clear", NoRequest, JsonNull, "none", Len(cache))
    /\ written' = Forget(written, <<>>)
    /\ UNCHANGED <<enabled, stats, now, dvars>>

NextCache == Tick \/ Get \/ Put \/ Clear

CacheSpec == InitCache /\ [][NextCache]_vars

(* ------------------------- the running service ------------------------ *)

\* create_app: the compression level and the cache switch are those of the
\* command line.
Init ==
    /\ enabled \in BOOLEAN
    /\ level \in 0..3
    /\ cache = <<>>
    /\ stats = [hits |-> 0, misses |-> 0, evictions |-> 0]
    /\ now = 0
    /\ cstats = [original_chars |-> 0, compressed_chars |-> 0, calls |-> 0]
    /\ hs = [h \in Handlers |-> Idle]
    /\ started = 0
    /\ answered = [k \in AllKeys |-> NotAnswered]
    /\ last = Call("init", NoRequest, JsonNull, "none", 0)
    /\ written = [k \in AllKeys |-> Absent]
    /\ zlast = NoZCall

Next ==
    \/ Clock
    \/ \E h \in Handlers :
          \/ Receive(h)
          \/ UpstreamReply(h)
          \/ UpstreamUnreachable(h)
          \/ StreamOpen(h)
          \/ StreamChunk(h)
          \/ StreamEnd(h)
          \/ StreamUpstreamError(h)
          \/ StreamDisconnect(h)
          \/ Finish(h)

Spec == Init /\ [][Next]_vars

(* ---------------- concurrent calls that share the cache --------------- *)

\* Chat requests that do not stream, over three keys a store keeps and two
\* it does not.
SharedRequests == {Inbound(TRUE, Body("object", r)) : r \in CacheRequests}

\* No more proxy() calls are started once this many have been.
MaxSharedRequests == 3

\* The service with the cache on and compression off.
InitShared ==
    /\ Init
    /\ enabled = TRUE
    /\ level = 0

\* The calls interleave at their awaits: between the start of a call, which
\* holds the lookup, and the answer of the upstream, which holds the store,
\* the other call takes its steps.
NextShared ==
    \/ Clock
    \/ \E h \in Handlers :
          \/ Serve(h, SharedRequests, MaxSharedRequests)
          \/ UpstreamReply(h)
          \/ Finish(h)

SharedSpec == InitShared /\ [][NextShared]_vars

(* ------------------ the compressor driven through its API ------------- *)

\* The contents of the messages handed to compress_messages: strings, lists
\* of parts (text parts, a part of another type, text parts with the text
\* missing or null), a content that is neither, and no content.
Contents ==
    {StrContent(TextVerbose),
     PartsContent(<<Part("text", JStr(TextVerbose)), Part("image_url", Absent)>>),
     PartsContent(<<Part("image_url", Absent), Part("text", JStr(TextCompact)),
                    Part("text", JStr(TextVerbose))>>),
     PartsContent(<<Part("text", Absent)>>),
     PartsContent(<<Part("text", JStr(TextVerbose)), Part("text", JsonNull)>>),
     [kind |-> "other"],
     [kind |-> "absent"]}

Messages == {[role |-> r, content |-> c] : r \in {"user", "assistant"}, c \in Contents}

\* The lists of no, one and two messages.
MessageLists ==
    {[t |-> "list", items |-> l] :
        l \in {<<>>} \cup {<<m>> : m \in Messages}
                      \cup {<<m1, m2>> : m1, m2 \in Messages}}

Fence == <<Backtick, Backtick, Backtick>>

\* The pieces the texts are made of.
Pieces ==
    {<<>>, <<"a">>, <<" ">>, <<Newline>>, <<" ", Newline>>, <<Newline, Newline>>,
     <<" ", " ">>}

\* The texts handed to the text passes: three pieces, or a fenced block of
\* two pieces between two pieces.
Texts ==
    {p1 \o p2 \o p3 : p1, p2, p3 \in Pieces}
       \cup {p1 \o Fence \o p2 \o p3 \o Fence \o p4 :
                p1, p4 \in {<<>>, <<" ", " ">>}, p2, p3 \in Pieces}

\* The lines the long texts are made of: long lines, a short one, and
\* fillers that make windows of 101 and of 98 characters.
LineC == <<"l", "i", "n", "e", " ", "1", " ">> \o Repeat("x", 40)

LineS == <<"s">>

Fill33 == Repeat("f", 33)

Fill32 == Repeat("f", 32)

Windows ==
    {<<CollidingLine1, LineY, LineZ>>, <<CollidingLine2, LineY, LineZ>>,
     <<LineC, LineY, LineZ>>, <<LineS, LineS, LineS>>}

\* The texts handed to _deduplicate_blocks: a window, 13 to 15 filler lines
\* and a window, which makes 19 to 21 lines.
LongTexts ==
    {JoinLines(w1 \o [k \in 1..n |-> f] \o w2) :
        w1, w2 \in Windows, n \in {13, 14, 15}, f \in {LineS, Fill33, Fill32}}

\* The argument of the first call made on the compressor: a message list or
\* a text.
Given(arg) ==
    ZCall("given", arg, JsonNull, "none",
          [original_chars |-> 0, compressed_chars |-> 0, calls |-> 0])

InitCompressor ==
    /\ enabled = TRUE
    /\ cache = <<>>
    /\ stats = [hits |-> 0, misses |-> 0, evictions |-> 0]
    /\ now = 0
    /\ level \in 0..3
    /\ cstats = [original_chars |-> 0, compressed_chars |-> 0, calls |-> 0]
    /\ hs = [h \in Handlers |-> Idle]
    /\ started = 0
    /\ answered = [k \in AllKeys |-> NotAnswered]
    /\ last = Call("init", NoRequest, JsonNull, "none", 0)
    /\ written = [k \in AllKeys |-> Absent]
    /\ zlast \in {Given(m) : m \in MessageLists}
                    \cup {Given(JStr(text)) : text \in Texts \cup LongTexts}

\* The variables a call on the compressor leaves alone.
zvars == <<enabled, cache, stats, now, level, hs, started, answered, last, written>>

\* compressor.compress_messages(messages), r being what it gives
CompressMessagesDone(messages, r) ==
    /\ cstats' = r.cstats
    /\ zlast' = ZCall("compress_messages", messages, r.messages, r.raised, cstats)

\* compressor.compress_messages(messages), of the list given
CompressMessagesCall ==
    /\ zlast.op = "given"
    /\ zlast.arg.t = "list"
    /\ CompressMessagesDone(zlast.arg, CompressMessages(level, zlast.arg, cstats))
    /\ UNCHANGED zvars

\* compressor._compress_text(text), of the text given
CompressTextCall ==
    /\ zlast.op = "given"
    /\ zlast.arg.t = "str"
    /\ zlast' = ZCall("_compress_text", zlast.arg,
                      JStr(CompressText(level, zlast.arg.s)), "none", cstats)
    /\ UNCHANGED <<cstats, zvars>>

\* compressor._normalize_whitespace(text), of the text given
NormalizeWhitespaceCall ==
    /\ zlast.op = "given"
    /\ zlast.arg.t = "str"
    /\ zlast' = ZCall("_normalize_whitespace", zlast.arg,
                      JStr(NormalizeWhitespace(zlast.arg.s)), "none", cstats)
    /\ UNCHANGED <<cstats, zvars>>

\* compressor._deduplicate_blocks(text), of the text given
DeduplicateBlocksCall ==
    /\ zlast.op = "given"
    /\ zlast.arg.t = "str"
    /\ zlast' = ZCall("_deduplicate_blocks", zlast.arg,
                      JStr(DeduplicateBlocks(zlast.arg.s)), "none", cstats)
    /\ UNCHANGED <<cstats, zvars>>

NextCompressor ==
    \/ CompressMessagesCall
    \/ CompressTextCall
    \/ NormalizeWhitespaceCall
    \/ DeduplicateBlocksCall

CompressorSpec == InitCompressor /\ [][NextCompressor]_vars

(* ------------------------- claims on the cache ------------------------ *)

\* The position of the entry the latest call's request addresses, before and
\* after the call.
LastKey == MakeKey(last'.req)

\* The temperature field is present and greater than 0.
PositiveTemperature(request_data) ==
    /\ request_data.temperature.t \in {"int", "float"}
    /\ request_data.temperature.v > 0

\* C1: after any sequence of store, lookup and clear operations on an enabled
\* cache of capacity max_size, the number of stored entries never exceeds
\* max_size.
C1_SizeNeverExceedsMax == enabled => Entries(cache) <= max_size

\* C1 witness: a store has just evicted and left the cache exactly full.
C1_Witness ==
    /\ enabled
    /\ last.op = "put"
    /\ last.before = max_size
    /\ stats.evictions > 0
    /\ Entries(cache) = max_size

\* C2: a store that inserts a new key into a cache holding max_size entries
\* removes exactly one entry, one whose last_touched is the smallest, and adds
\* exactly 1 to the eviction counter; any other store (an overwrite, free
\* room, a request that is not kept) removes nothing and leaves the eviction
\* counter alone; every write and every hit sets last_touched to the time of
\* the call.
C2_EvictsExactlyTheOldest ==
    [][/\ (last'.op = "put" /\ last'.raised = "none") =>
            IF enabled /\ Eligible(last'.req) /\ LastKey \notin Keys(cache)
                  /\ Len(cache) = max_size
            THEN /\ Cardinality(Keys(cache) \ Keys(cache')) = 1
                 /\ Len(cache') = max_size
                 /\ \A i \in 1..Len(cache) :
                        cache[i].key \notin Keys(cache') =>
                            \A j \in 1..Len(cache) : cache[i].ts <= cache[j].ts
                 /\ \A i \in 1..Len(cache) :
                        cache[i].key \in Keys(cache') =>
                            cache'[IndexOf(cache', cache[i].key)] = cache[i]
                 /\ LastKey \in Keys(cache')
                 /\ stats'.evictions = stats.evictions + 1
            ELSE /\ Keys(cache) \subseteq Keys(cache')
                 /\ stats'.evictions = stats.evictions
       /\ (last'.op = "put" /\ enabled /\ Eligible(last'.req)) =>
            /\ LastKey \in Keys(cache')
            /\ cache'[IndexOf(cache', LastKey)].ts = now'
       /\ (last'.op = "get" /\ stats'.hits = stats.hits + 1) =>
            /\ LastKey \in Keys(cache')
            /\ cache'[IndexOf(cache', LastKey)].ts = now'
      ]_vars

\* C2 witness: a store into a full cache whose entries had different
\* last_touched times has evicted one and kept a more recent one.
C2_Witness ==
    /\ last.op = "put"
    /\ last.before = max_size
    /\ stats.evictions = 1
    /\ Len(cache) = max_size
    /\ \E i \in 1..Len(cache) : cache[i].ts < now

\* C3: a lookup for a request whose temperature is present and greater than
\* 0 returns absent, a store for such a request changes nothing, and no entry
\* of the cache is keyed by a temperature greater than 0.
C3_PositiveTemperatureNeverCached ==
    [][/\ (last'.op = "put" /\ PositiveTemperature(last'.req)) =>
            /\ cache' = cache
            /\ stats' = stats
       /\ (last'.op = "get" /\ PositiveTemperature(last'.req)) =>
            /\ last'.result = JsonNull
            /\ stats'.hits = stats.hits
       /\ \A i \in 1..Len(cache') :
            ~(cache'[i].key.temperature.t \in {"int", "float"}
                /\ cache'[i].key.temperature.v > 0)
      ]_vars

\* C3 witness: a lookup for a request with temperature 0.7 has just missed
\* while the same messages are cached under temperature 0.
C3_Witness ==
    /\ enabled
    /\ last.op = "get"
    /\ PositiveTemperature(last.req)
    /\ stats.misses > 0
    /\ \E i \in 1..Len(cache) : cache[i].key.messages = last.req.messages

\* C4: on an enabled cache, a lookup for a request with temperature 0 whose
\* payload was stored, whose entry has not left the cache since and is at
\* most ttl old, returns exactly the payload stored last and counts one hit.
C4_StoreThenLookupReturnsPayload ==
    [][(/\ last'.op = "get"
        /\ enabled
        /\ last'.req.temperature = JInt(0)
        /\ written[LastKey] # Absent
        /\ \E i \in 1..Len(cache) : cache[i].key = LastKey /\ now - cache[i].ts <= ttl)
        => /\ last'.result = written[LastKey]
           /\ stats'.hits = stats.hits + 1
           /\ stats'.misses = stats.misses
      ]_vars

\* C4 witness: a lookup has returned a stored payload one tick after a store.
C4_Witness ==
    /\ last.op = "get"
    /\ last.req.temperature = JInt(0)
    /\ last.result \in Payloads
    /\ stats.hits = 1
    /\ now > 0

\* C5 as claimed: on an enabled cache, a store for a request with no
\* temperature field inserts an entry.
C5_AbsentTemperatureIsStored ==
    [][(last'.op = "put" /\ enabled /\ last'.req.temperature = Absent)
        => LastKey \in Keys(cache')]_vars

\* C5 as amended: a request with no temperature field is handled as one with
\* temperature 1.0 and is not kept: a store for it changes neither entries nor
\* counters, and a lookup for it returns absent and, on an enabled cache,
\* counts a miss.
C5_AbsentTemperatureNotStored ==
    [][/\ (last'.op = "put" /\ last'.req.temperature = Absent) =>
            /\ cache' = cache
            /\ stats' = stats
            /\ last'.raised = "none"
       /\ (last'.op = "get" /\ last'.req.temperature = Absent) =>
            /\ last'.result = JsonNull
            /\ stats'.hits = stats.hits
            /\ enabled => stats'.misses = stats.misses + 1
      ]_vars

\* C5 witness: on an enabled cache holding entries, a lookup for a request
\* with no temperature field has missed.
C5_Witness ==
    /\ enabled
    /\ last.op = "get"
    /\ last.req.temperature = Absent
    /\ last.result = JsonNull
    /\ stats.misses > 0
    /\ Len(cache) > 0

\* C6: a lookup of a key whose entry is more than ttl old returns absent,
\* removes that entry and no other, and counts one miss and no hit; an entry
\* leaves the cache only by such a lookup, by a capacity eviction or by
\* clear, never by the passing of time or a call on another key; every hit
\* sets last_touched to the time of the hit.
C6_ExpiredPurgedOnLookupOnly ==
    [][/\ (/\ last'.op = "get"
           /\ enabled
           /\ \E i \in 1..Len(cache) : cache[i].key = LastKey /\ now - cache[i].ts > ttl)
           => /\ last'.result = JsonNull
              /\ Keys(cache') = Keys(cache) \ {LastKey}
              /\ stats'.misses = stats.misses + 1
              /\ stats'.hits = stats.hits
       /\ \A i \in 1..Len(cache) :
            cache[i].key \notin Keys(cache') =>
                \/ /\ last'.op = "get"
                   /\ cache[i].key = LastKey
                   /\ now - cache[i].ts > ttl
                \/ /\ last'.op = "put"
                   /\ Len(cache) = max_size
                   /\ LastKey \notin Keys(cache)
                \/ last'.op = "clear"
       /\ stats'.hits # stats.hits =>
            /\ last'.op = "get"
            /\ stats'.hits = stats.hits + 1
            /\ \E i \in 1..Len(cache') :
                  /\ cache'[i].key = LastKey
                  /\ cache'[i].ts = now'
                  /\ cache'[i].data = last'.result
      ]_vars

\* C6 witness: a lookup has just removed an expired entry while another
\* expired entry, not looked up, is still stored.
C6_Witness ==
    /\ last.op = "get"
    /\ last.result = JsonNull
    /\ Len(cache) < last.before
    /\ \E i \in 1..Len(cache) : now - cache[i].ts > ttl

(* ---- claims about the running service ---- *)

\* The handler h takes this step, and the request it is handling.
Steps(h) == hs'[h] # hs[h]

Starts(h) == hs[h].pc = "idle" /\ hs'[h].pc # "idle"

RequestOf(h) == IF hs[h].pc = "idle" THEN hs'[h].req ELSE hs[h].req

ChatObject(req) == req.chat /\ req.body.kind = "object"

\* C7 (as stated): for a non-streaming chat request with the cache on, a
\* lookup that counts a hit ends the request with the stored payload and
\* without a call to the upstream.  The code breaks it when the stored
\* payload is null.
C7_HitReturnsStoredPayload ==
    [][\A h \in Handlers :
          ( /\ Starts(h)
            /\ ChatObject(RequestOf(h))
            /\ ~Truthy(RequestOf(h).body.data.stream)
            /\ enabled
            /\ stats'.hits = stats.hits + 1 )
          => LET i == IndexOf(cache, MakeKey(RequestOf(h).body.data))
             IN  /\ i # 0
                 /\ hs'[h].pc = "done"
                 /\ hs'[h].response = Response("cached", 200, cache[i].data)
                 /\ ~hs'[h].contacted]_vars

\* C8: no step of a call whose parsed body has a truthy stream flag changes
\* the cache's entries or its hit, miss and eviction counters, whatever the
\* temperature and whatever the upstream does.
C8_StreamingNeverTouchesCache ==
    [][\A h \in Handlers :
          ( /\ Steps(h)
            /\ ChatObject(RequestOf(h))
            /\ Truthy(RequestOf(h).body.data.stream) )
          => (cache' = cache /\ stats' = stats)]_vars

\* C8 witness: a streaming call is being relayed with the cache on while the
\* cache holds an entry under the key of its body, and nothing was looked up.
C8_Witness ==
    \E h \in Handlers :
       /\ hs[h].pc = "streaming"
       /\ enabled
       /\ ChatObject(hs[h].req)
       /\ hs[h].req.body.data.temperature = JInt(0)
       /\ IndexOf(cache, MakeKey(hs[h].req.body.data)) # 0
       /\ stats.hits = 0
       /\ stats.misses = 1

\* C9 (as stated): once the upstream has answered a non-streaming chat
\* request of temperature 0 with status 200 and a JSON body, an identical
\* request started within the TTL, nothing having been evicted, is answered
\* from the cache with that body and without a call to the upstream, at
\* every compression level.  The code breaks it when that body is null (C7).
C9_IdenticalRequestAnsweredFromCache ==
    [][\A h \in Handlers :
          ( /\ Starts(h)
            /\ ChatObject(RequestOf(h))
            /\ ~Truthy(RequestOf(h).body.data.stream)
            /\ RequestOf(h).body.data.temperature = JInt(0)
            /\ enabled
            /\ answered[MakeKey(RequestOf(h).body.data)].at >= 0
            /\ now - answered[MakeKey(RequestOf(h).body.data)].at <= ttl
            /\ stats.evictions = 0 )
          => /\ hs'[h].pc = "done"
             /\ hs'[h].response =
                   Response("cached", 200, answered[MakeKey(RequestOf(h).body.data)].payload)
             /\ ~hs'[h].contacted]_vars

\* The body of a chat request is malformed or is no JSON object.
Unparsable(req) == req.chat /\ req.body.kind \in {"malformed", "badutf8", "nonobject"}

\* C10 (as stated): a chat request whose body is malformed or is no JSON
\* object is not rejected: its original bytes go to the upstream, nothing is
\* compressed or stored, and the upstream's response is relayed.  The code
\* breaks it for a body that is JSON but no object and for bytes that are no
\* text.
C10_UnparsableBodyFailsOpen ==
    [][\A h \in Handlers :
          (Steps(h) /\ Unparsable(RequestOf(h)))
          => /\ cache' = cache
             /\ cstats' = cstats
             /\ hs'[h].response.kind # "internal_error" \/ hs[h].contacted
             /\ Starts(h) => /\ hs'[h].pc = "upstream"
                             /\ hs'[h].body = Forwarded(TRUE, NoRequest)
             /\ (hs[h].pc = "upstream" /\ hs'[h].response.kind # "internal_error")
                   => hs'[h].response.kind = "relay"]_vars

\* C11 (as stated): when the upstream cannot be reached, in the streaming
\* or in the buffered branch, the caller receives a gateway-failure response
\* built by proxy(), not the answer to an unhandled exception.  The code has
\* no handler around the upstream call.
C11_UnreachableGivesGatewayFailure ==
    \A h \in Handlers :
       hs[h].upstream = "unreachable" => hs[h].response.kind = "gateway_failure"

\* C12 (as stated): in the buffered branch, when the upstream answers with
\* status 200, the caller receives that status and body whatever happens
\* while the answer is parsed, the key built and the entry stored.  The code
\* breaks it when cache.put raises on the temperature of the request.
C12_StoreFailureOnlySkipsCaching ==
    \A h \in Handlers :
       ( /\ hs[h].upstream = "answered"
         /\ ~hs[h].is_streaming
         /\ hs[h].reply.status = 200 )
       => hs[h].response = Response("relay", 200, hs[h].reply.content)

(* ---- claims about the cache key ---- *)

\* The requests of the cache, and the one that gives the default
\* temperature explicitly.
KeyRequests == CacheRequests \cup {ChatData(MsgsVerbose, JFloat(10), Absent)}

\* The same requests with a field that is no part of the key, set or not.
Probes ==
    {[r EXCEPT !.stream = s] :
        r \in KeyRequests, s \in {Absent, JBool(TRUE), JBool(FALSE), JInt(1)}}

\* The two requests agree on model, messages, temperature (absent being
\* 1.0) and max_tokens.
Agree(r1, r2) ==
    /\ r1.model = r2.model
    /\ r1.messages = r2.messages
    /\ r1.max_tokens = r2.max_tokens
    /\ (IF r1.temperature = Absent THEN JFloat(10) ELSE r1.temperature)
          = (IF r2.temperature = Absent THEN JFloat(10) ELSE r2.temperature)

\* C13: two requests that agree on the four fields have the same key, and in
\* every state of the cache a lookup gives the same outcome and a store
\* writes the same entry for both, whatever their other fields.
C13_KeyDependsOnFourFieldsOnly ==
    \A r1 \in KeyRequests, r2 \in Probes :
       Agree(r1, r2) =>
          /\ MakeKey(r1) = MakeKey(r2)
          /\ \A t2 \in {now, now + 1} :
                CacheGet(enabled, cache, stats, r1, now, t2)
                   = CacheGet(enabled, cache, stats, r2, now, t2)
          /\ \A p \in Payloads :
                CachePut(enabled, cache, stats, r1, p, now)
                   = CachePut(enabled, cache, stats, r2, p, now)

\* C13 witness: an entry stored for one request is hit by a lookup for a
\* request that differs from it in the stream flag only.
C13_Witness ==
    /\ last.op = "put"
    /\ enabled
    /\ \E r \in Probes :
          /\ r # last.req
          /\ Agree(r, last.req)
          /\ IndexOf(cache, MakeKey(last.req)) # 0
          /\ CacheGet(enabled, cache, stats, r, now, now).hit

\* C14: on a disabled cache, after any sequence of operations, there is no
\* entry, the hit, miss and eviction counters are 0, and a lookup has
\* returned absent.
C14_DisabledCacheDoesNothing ==
    ~enabled =>
       /\ cache = <<>>
       /\ stats = [hits |-> 0, misses |-> 0, evictions |-> 0]
       /\ last.op = "get" => last.result = JsonNull

\* C14 witness: a request of temperature 0 has been stored on a disabled
\* cache, after the clock has advanced.
C14_Witness ==
    /\ ~enabled
    /\ last.op = "put"
    /\ last.req.temperature = JInt(0)
    /\ last.raised = "none"
    /\ now > 0

(* ---- claims about the compressor ---- *)

\* C15 (as stated): compress_messages raises for no message list, and a chat
\* request whose body parsed and that the cache did not answer goes to the
\* upstream whatever the shape of its messages.  The code breaks it for a
\* part of type "text" with a missing or non-string text, at levels 1 to 3.
C15_CompressionNeverRaises ==
    [][\A h \in Handlers :
          ( /\ Starts(h)
            /\ ChatObject(RequestOf(h))
            /\ hs'[h].response.kind # "cached" )
          => /\ CompressMessages(level, RequestOf(h).body.data.messages, cstats).raised
                   = "none"
             /\ hs'[h].pc = "upstream"
             /\ hs'[h].contacted]_vars

\* The part b is the part a but for its text, if a is a text part.
SamePart(a, b) ==
    IF a.type = "text" THEN [b EXCEPT !.text = a.text] = a ELSE b = a

\* The message b is the message a but for a string content and for the texts
\* of the text parts of a list content.
SameMessage(a, b) ==
    IF a.content.kind = "str"
    THEN b.content.kind = "str" /\ [b EXCEPT !.content = a.content] = a
    ELSE IF a.content.kind = "parts"
    THEN /\ b.content.kind = "parts"
         /\ [b EXCEPT !.content = a.content] = a
         /\ Len(b.content.parts) = Len(a.content.parts)
         /\ \A j \in 1..Len(a.content.parts) :
               SamePart(a.content.parts[j], b.content.parts[j])
    ELSE b = a

\* C16: at every level, what compress_messages returns has as many messages
\* as its argument, in the same order, each the same but for its textual
\* content: other fields, parts of another type and their order are kept.
C16_OnlyTextualContentChanges ==
    (zlast.op = "compress_messages" /\ zlast.raised = "none") =>
       /\ Len(zlast.result.items) = Len(zlast.arg.items)
       /\ \A i \in 1..Len(zlast.arg.items) :
             SameMessage(zlast.arg.items[i], zlast.result.items[i])

\* C16 witness: at level 1 or above, a list of two messages of different
\* roles, one with a list content that has a part of another type, has been
\* compressed and is not returned as it was.
C16_Witness ==
    /\ zlast.op = "compress_messages"
    /\ zlast.raised = "none"
    /\ level >= 1
    /\ Len(zlast.arg.items) = 2
    /\ zlast.arg.items[1].role # zlast.arg.items[2].role
    /\ zlast.arg.items[1].content.kind = "str"
    /\ zlast.arg.items[2].content.kind = "parts"
    /\ \E j \in 1..Len(zlast.arg.items[2].content.parts) :
          zlast.arg.items[2].content.parts[j].type # "text"
    /\ zlast.result.items[1] # zlast.arg.items[1]
    /\ zlast.result.items[2] # zlast.arg.items[2]

\* C17: at level 0, compress_messages returns its argument as it is, raises
\* nothing, and leaves the three statistics as they were.
C17_LevelZeroReturnsInput ==
    (zlast.op = "compress_messages" /\ level = 0) =>
       /\ zlast.result = zlast.arg
       /\ zlast.raised = "none"
       /\ cstats = zlast.before

\* C17 witness: at level 0, a list with a compressible string content and a
\* text part whose text is null has been handed to compress_messages.
C17_Witness ==
    /\ zlast.op = "compress_messages"
    /\ level = 0
    /\ Len(zlast.arg.items) = 2
    /\ zlast.arg.items[1].content = StrContent(TextVerbose)
    /\ zlast.arg.items[2].content.kind = "parts"
    /\ \E j \in 1..Len(zlast.arg.items[2].content.parts) :
          zlast.arg.items[2].content.parts[j].text = JsonNull

\* Whether the text has three newline characters in a row.
HasNewlineRun(s) ==
    \E i \in 1..(Len(s) - 2) :
       s[i] = Newline /\ s[i + 1] = Newline /\ s[i + 2] = Newline

\* C18: at level 1 or higher, the text _compress_text returns has no run of
\* three or more newline characters, whatever the text it was given.
C18_NoRunOfThreeNewlines ==
    (zlast.op = "_compress_text" /\ level >= 1) => ~HasNewlineRun(zlast.result.s)

RECURSIVE FencedBlocks(_, _)
\* The fenced blocks of the text from position i on, in order: each from a
\* fence marker to the next one, markers included.
FencedBlocks(s, i) ==
    LET open == NextFence(s, i)
        close == IF open = 0 THEN 0 ELSE NextFence(s, open + 3)
    IN  IF close = 0 THEN <<>>
        ELSE <<SubSeq(s, open, close + 2)>> \o FencedBlocks(s, close + 3)

\* C19: the text _normalize_whitespace returns has the fenced blocks of the
\* text it was given, character for character.
C19_FencedBlocksUntouched ==
    zlast.op = "_normalize_whitespace" =>
       FencedBlocks(zlast.result.s, 1) = FencedBlocks(zlast.arg.s, 1)

\* Whether a window of block_size lines starts at line i and is longer than
\* the threshold once joined.
LongWindowAt(lines, i) ==
    /\ i + block_size - 1 <= Len(lines)
    /\ Len(JoinLines(SubSeq(lines, i, i + block_size - 1))) > DedupMinChars

\* The joined window that starts at line i.
WindowAt(lines, i) == JoinLines(SubSeq(lines, i, i + block_size - 1))

RECURSIVE Elided(_, _, _, _, _)
\* Whether out, from line j on, is lines, from line i on, with nothing but
\* windows replaced by a marker line, each replaced window being longer than
\* the threshold and equal to a window in scanned, the windows over the
\* threshold scanned before it, in a text of at least 20 lines.
Elided(lines, out, i, j, scanned) ==
    IF i > Len(lines) THEN j > Len(out)
    ELSE /\ j <= Len(out)
         /\ \/ /\ out[j] = lines[i]
               /\ Elided(lines, out, i + 1, j + 1,
                         IF LongWindowAt(lines, i)
                         THEN scanned \cup {WindowAt(lines, i)} ELSE scanned)
            \/ /\ out[j] = SameAsAbove("#")
               /\ Len(lines) >= DedupMinLines
               /\ LongWindowAt(lines, i)
               /\ WindowAt(lines, i) \in scanned
               /\ Elided(lines, out, i + block_size, j + 1, scanned)

\* C20: what _deduplicate_blocks returns is its argument with nothing but
\* windows of 3 lines replaced by a marker line, each in a text of at least
\* 20 lines, longer than 100 characters and equal to a window over the
\* threshold scanned earlier; every other line is as it was.
C20_ElidesOnlyRepeatedLongWindows ==
    zlast.op = "_deduplicate_blocks" =>
       Elided(SplitLines(zlast.arg.s), SplitLines(zlast.result.s), 1, 1, {})

(* ----------------------- claims on the streaming ---------------------- *)

\* A step of stream_generator of call h that reads the upstream response: a
\* chunk is relayed, the end of the stream is met, or the read raises.
ReadsUpstream(h) ==
    /\ hs[h].pc = "streaming"
    /\ \/ hs'[h].chunks > hs[h].chunks
       \/ hs'[h].pc = "done" /\ hs'[h].outcome \in {"complete", "upstream_error"}

\* C21 (as stated): in the streaming branch, the client that owns the
\* upstream connection is open whenever a chunk is read from the upstream or
\* relayed to the caller, up to the last one.  The code breaks it: the
\* return of the StreamingResponse leaves the async with that owns the client
\* before the generator has read anything.
C21_ClientOpenWhileRelaying ==
    [][\A h \in Handlers : ReadsUpstream(h) => hs[h].client = "open"]_vars

\* C22 (as stated): a streaming exchange that is over, in any of the three
\* outcomes (complete relay, upstream failure in the middle of the stream,
\* disconnection of the caller), has released its upstream response and its
\* connection.  The code breaks it: upstream.aclose() is reached on a
\* complete relay only.
C22_StreamAlwaysReleased ==
    \A h \in Handlers :
       (hs[h].pc = "done" /\ hs[h].outcome # "none")
          => (hs[h].aclosed /\ hs[h].client = "closed")

(* -------------------- claims on the shared cache ---------------------- *)

\* The step is the start of call h, with its lookup in the cache.
LooksUp(h) == hs[h].pc = "idle" /\ hs'[h].pc # "idle" /\ hs'[h].looked

\* The step is the end of the upstream call of h, with its store.
Stores(h) == hs[h].pc = "upstream" /\ hs'[h].pc = "done"

\* C23: with calls handled concurrently on one cache that is on, at every
\* point hits + misses is the number of lookups made, every step that makes a
\* lookup adds one to hits + misses and leaves the eviction counter alone,
\* every step that makes a store adds to the eviction counter the number of
\* entries it removed, at most one, and leaves hits and misses alone, no
\* other step changes the cache or its counters, and the cache never holds
\* more than max_size entries.
C23_LookupsAndStoresAreAtomic ==
    [][ /\ stats'.hits + stats'.misses = started'
        /\ Len(cache') <= max_size
        /\ \A h \in Handlers :
              /\ LooksUp(h) => /\ stats'.hits + stats'.misses
                                     = stats.hits + stats.misses + 1
                               /\ stats'.evictions = stats.evictions
              /\ Stores(h) => /\ stats'.evictions - stats.evictions
                                    = Cardinality(Keys(cache) \ Keys(cache'))
                              /\ stats'.evictions - stats.evictions <= 1
                              /\ stats'.hits = stats.hits
                              /\ stats'.misses = stats.misses
        /\ (\A h \in Handlers : ~LooksUp(h) /\ ~Stores(h))
              => cache' = cache /\ stats' = stats ]_vars

\* C23 witness: two calls are under way at once, one of them has evicted an
\* entry with its store after the lookup of the other, three lookups have
\* been counted and the cache is full.
C23_Witness ==
    /\ hs["h1"].pc = "done" /\ hs["h2"].pc = "done"
    /\ hs["h1"].looked /\ hs["h2"].looked
    /\ hs["h1"].upstream = "answered" /\ hs["h2"].upstream = "answered"
    /\ stats.evictions = 1
    /\ stats.hits + stats.misses = 3
    /\ Len(cache) = max_size

(* ------------------- claims on eviction and the TTL ------------------- *)

\* C24: the clock never going backwards, a store never evicts an entry that
\* is within its TTL while the cache holds an expired one; and the entries
\* that have expired without being purged count as the others do: a store of
\* a new key evicts exactly when the cache holds max_size entries, whatever
\* their age, and the reported number of entries is that of all the keys.
C24_EvictionPrefersExpired ==
    [][ /\ now' >= now
        /\ Entries(cache') = Cardinality(Keys(cache'))
        /\ last'.op = "put" =>
              /\ \A i \in 1..Len(cache) :
                    (cache[i].key \notin Keys(cache') /\ ~Expired(cache[i].ts, now))
                       => \A j \in 1..Len(cache) : ~Expired(cache[j].ts, now)
              /\ (enabled /\ Eligible(last'.req) /\ last'.raised = "none"
                     /\ LastKey \notin Keys(cache))
                    => (stats'.evictions = stats.evictions + 1
                           <=> Len(cache) >= max_size) ]_vars

\* C24 witness: a store into a full cache has evicted an entry while another
\* entry, expired and not purged, is still held and counted.
C24_Witness ==
    /\ last.op = "put"
    /\ last.before = max_size
    /\ stats.evictions = 1
    /\ Entries(cache) = max_size
    /\ \E i \in 1..Len(cache) : Expired(cache[i].ts, now)

====
